---- MODULE Spec2Model ----
(***************************************************************************)
(* ExistingNextJSMonitor (integrate-with-existing-nextjs.js): the metrics  *)
(* accumulator, the trackApiRoute wrapper, the manual entry points, the    *)
(* periodic timer and the signal-driven cleanup.                           *)
(*                                                                         *)
(* JavaScript runs one job at a time: a synchronous stretch of code is one *)
(* atomic action.  The only suspension point of the program is the         *)
(* `await handler(req, res)` of the wrapper, so a wrapped call is two      *)
(* actions: its entry (up to the await) and its exit (everything after).   *)
(*                                                                         *)
(* Durations and rates are real numbers in the program; they are kept here *)
(* as exact fractions [num, den] and compared by cross-multiplication.     *)
(***************************************************************************)
EXTENDS Integers, Sequences, FiniteSets, TLC

\* ---- bounds of the model ------------------------------------------------
\* Number of wrapped calls that may run (concurrently) in one behaviour.
MaxCalls == 2
\* Capacity of requestTimes.  The program uses 1000 (lines 148, 169); the
\* model scales it down so that a behaviour can push more than a full buffer.
Capacity == 2
\* The clock advances MaxTicks times at most, one update interval at a time.
MaxTicks == 1
\* Manual calls per behaviour.
MaxEvents == 1
MaxPageViews == 1
\* Longest generated argument of classifyPage, in characters.
MaxNameLen == 6

\* ---- program constants ---------------------------------------------------
\* options.updateInterval default (ms)
UpdateInterval == 5000

\* ---- input domains -------------------------------------------------------
Calls == 1..MaxCalls
\* One request more where the accounting is checked: three recorded
\* requests are the fewest whose rates are not exact in binary.
AccountingCalls == 1..(MaxCalls + 1)
\* req.url of a wrapped request; NoUrl is a request whose url is missing.
NoUrl == "<undefined>"
Urls == {"/", NoUrl}
\* names given to trackPageView / trackCustomEvent
PageNames == {"/", "/index", "/api/users", "/about", "constructor"}
EventNames == {"checkout"}
\* the `duration` argument of trackCustomEvent; Undefined is an omitted one
\* (<<>>), otherwise <<d>>
Undefined == <<>>
EventDurations == {Undefined, <<0>>, <<40>>}
\* characters of the generated arguments of classifyPage
Alphabet == {"/", "a", "p", "i"}
\* what the wrapped handler does once it finishes
Errors == {"E1", "E2"}
HandlerOutcomes == {[kind |-> "return", value |-> "R"]}
                     \cup {[kind |-> "throw", value |-> e] : e \in Errors}

VARIABLES
    metrics,          \* this.metrics (the fields the operations read or write)
    requestTimes,     \* this.requestTimes
    startTime,        \* this.startTime
    timerArmed,       \* the interval behind this.metricsInterval is active
    nextDue,          \* earliest time of the interval's next firing
    now,              \* the clock (Date.now / performance.now), ms
    call,             \* the wrapped calls: position, route, start, outcome
    file,             \* content of options.metricsFile, None if never written
    returned,         \* the object a getMetrics() call returned, None before
    pushed,           \* history: every sample ever pushed, in order
    delivered,        \* history: the signals delivered so far
    lastWrite,        \* history: "ok" / "failed" for the latest writeMetricsFile,
                      \* "none" when the latest timer cycle never reached it
    finalWrites,      \* history: writeMetricsFile invocations made by cleanup
    nEvents, nViews,  \* history: manual calls made so far
    lastInput,        \* history: arguments of the latest manual call
    uncaught,         \* fate of an exception that left a timer callback or
                      \* a signal listener: "none", "survived", "fatal"
    probeFailures     \* history: timer cycles in which the resource probe threw

vars == <<metrics, requestTimes, startTime, timerArmed, nextDue, now, call,
          file, returned, pushed, delivered, lastWrite, finalWrites, nEvents,
          nViews, lastInput, uncaught, probeFailures>>

\* ---- arithmetic on exact fractions ----------------------------------------
Max(a, b) == IF a >= b THEN a ELSE b
Ratio(n, d) == [num |-> n, den |-> d]
Zero == Ratio(0, 1)
RatEq(a, b) == a.num * b.den = b.num * a.den

RECURSIVE Sum(_)
Sum(s) == IF s = <<>> THEN 0 ELSE Head(s) + Sum(Tail(s))

\* requestTimes.reduce((a, b) => a + b, 0) / requestTimes.length
Average(rt) == Ratio(Sum(rt), Len(rt))

\* ---- the sample buffer -----------------------------------------------------
\* push, then shift when the length exceeds the capacity
PushNoEvict(rt, d) == IF Len(rt) >= Capacity THEN rt ELSE Append(rt, d)
Push(rt, d) ==
    LET a == Append(rt, d)
    IN  IF Len(a) > Capacity THEN Tail(a) ELSE a

\* ---- routes ---------------------------------------------------------------
\* routes is an object literal ({}), so a key it does not own is looked up
\* on Object.prototype: routes["constructor"] is the function Object, which
\* is truthy and whose numeric value is NaN.
ProtoKeys == {"constructor"}
\* NaN, written as a number no counter can hold; NaN is falsy and NaN + 1 is
\* NaN.
NaN == -1

\* if (!routes[k]) routes[k] = 0; routes[k]++
Bump(routes, k) ==
    LET own == k \in DOMAIN routes
        falsy == IF own THEN routes[k] = 0 \/ routes[k] = NaN
                       ELSE k \notin ProtoKeys
        operand == IF falsy THEN 0 ELSE IF own THEN routes[k] ELSE NaN
        result == IF operand = NaN THEN NaN ELSE operand + 1
    IN  [j \in DOMAIN routes \cup {k} |-> IF j = k THEN result ELSE routes[j]]

\* Strings that the program inspects character by character are sequences
\* of one-character strings; Text gives the characters of a name.
Text(name) ==
    CASE name = "/" -> <<"/">>
      [] name = "/index" -> <<"/", "i", "n", "d", "e", "x">>
      [] name = "/api/users" -> <<"/", "a", "p", "i", "/", "u", "s", "e", "r", "s">>
      [] name = "/about" -> <<"/", "a", "b", "o", "u", "t">>
      [] name = "unknown" -> <<"u", "n", "k", "n", "o", "w", "n">>
      [] name = "checkout" -> <<"c", "h", "e", "c", "k", "o", "u", "t">>
      [] name = "constructor" ->
            <<"c", "o", "n", "s", "t", "r", "u", "c", "t", "o", "r">>

\* String.prototype.startsWith: s has at least the characters of prefix, and
\* they agree position by position.
RECURSIVE StartsWith(_, _)
StartsWith(s, prefix) ==
    IF prefix = <<>> THEN TRUE
    ELSE IF s = <<>> THEN FALSE
    ELSE Head(s) = Head(prefix) /\ StartsWith(Tail(s), Tail(prefix))

\* classifyPage(pageName)
classifyPageRootOnly(pageName) ==
    IF pageName = Text("/") THEN "home"
    ELSE IF StartsWith(pageName, <<"/", "a", "p", "i", "/">>) THEN "api"
    ELSE "other"
classifyPage(pageName) ==
    IF pageName = Text("/") \/ pageName = Text("/index") THEN "home"
    ELSE IF StartsWith(pageName, <<"/", "a", "p", "i", "/">>) THEN "api"
    ELSE "other"

\* arguments given to classifyPage on its own: every string over Alphabet up
\* to MaxNameLen characters, and the names used elsewhere
ClassifyInputs ==
    UNION {[1..k -> Alphabet] : k \in 0..MaxNameLen}
      \cup {Text(n) : n \in PageNames \cup EventNames \cup {"unknown"}}

\* ---- updateMetrics(responseTime, statusCode, route, type) ------------------
\* Returns the new requestTimes and metrics.
updateMetricsThreshold(m, rt, responseTime, statusCode, route, type) ==
    LET rt2 == Push(rt, responseTime)
    IN  [requestTimes |-> rt2,
         metrics |-> [m EXCEPT
            !.requestCount = @ + 1,
            !.errorCount = IF statusCode > 500 THEN @ + 1 ELSE @,
            !.successCount = IF statusCode > 500 THEN @ ELSE @ + 1,
            !.pages = IF type = "api" THEN [@ EXCEPT !.api = @ + 1]
                      ELSE IF route = "/" \/ route = "/index"
                           THEN [@ EXCEPT !.home = @ + 1]
                      ELSE [@ EXCEPT !.other = @ + 1],
            !.routes = Bump(@, route),
            !.responseTime = IF Len(rt2) > 0 THEN Average(rt2) ELSE @]]
updateMetricsByRoute(m, rt, responseTime, statusCode, route, type) ==
    LET rt2 == Push(rt, responseTime)
    IN  [requestTimes |-> rt2,
         metrics |-> [m EXCEPT
            !.requestCount = @ + 1,
            !.errorCount = IF statusCode >= 400 THEN @ + 1 ELSE @,
            !.successCount = IF statusCode >= 400 THEN @ ELSE @ + 1,
            !.pages[classifyPage(Text(route))] = @ + 1,
            !.routes = Bump(@, route),
            !.responseTime = IF Len(rt2) > 0 THEN Average(rt2) ELSE @]]
updateMetricsNoElse(m, rt, responseTime, statusCode, route, type) ==
    LET rt2 == Push(rt, responseTime)
    IN  [requestTimes |-> rt2,
         metrics |-> [m EXCEPT
            !.requestCount = @ + 1,
            !.errorCount = IF statusCode >= 400 THEN @ + 1 ELSE @,
            !.successCount = @ + 1,
            !.pages = IF type = "api" THEN [@ EXCEPT !.api = @ + 1]
                      ELSE IF route = "/" \/ route = "/index"
                           THEN [@ EXCEPT !.home = @ + 1]
                      ELSE [@ EXCEPT !.other = @ + 1],
            !.routes = Bump(@, route),
            !.responseTime = IF Len(rt2) > 0 THEN Average(rt2) ELSE @]]
updateMetrics(m, rt, responseTime, statusCode, route, type) ==
    LET rt2 == Push(rt, responseTime)
    IN  [requestTimes |-> rt2,
         metrics |-> [m EXCEPT
            !.requestCount = @ + 1,
            !.errorCount = IF statusCode >= 400 THEN @ + 1 ELSE @,
            !.successCount = IF statusCode >= 400 THEN @ ELSE @ + 1,
            !.pages = IF type = "api" THEN [@ EXCEPT !.api = @ + 1]
                      ELSE IF route = "/" \/ route = "/index"
                           THEN [@ EXCEPT !.home = @ + 1]
                      ELSE [@ EXCEPT !.other = @ + 1],
            !.routes = Bump(@, route),
            !.responseTime = IF Len(rt2) > 0 THEN Average(rt2) ELSE @]]

\* ---- the wrapper returned by trackApiRoute ---------------------------------
\* const route = req.url || 'unknown'
RouteOf(url) == IF url = NoUrl THEN "unknown" ELSE url

\* finally { activeConnections = Math.max(0, activeConnections - 1) }
FinallySkippedOnThrow(m, outcome) ==
    IF outcome.kind = "throw" THEN m
    ELSE [m EXCEPT !.activeConnections = Max(0, @ - 1)]
Finally(m, outcome) == [m EXCEPT !.activeConnections = Max(0, @ - 1)]

\* How the wrapper's promise settles for a handler outcome:
\* `return result` fulfils with the handler's value, `throw error` rejects
\* with the handler's error.
SettleSwallow(outcome) == [kind |-> "fulfilled", value |-> outcome.value]
Settle(outcome) ==
    IF outcome.kind = "throw"
    THEN [kind |-> "rejected", value |-> outcome.value]
    ELSE [kind |-> "fulfilled", value |-> outcome.value]

\* ---- the persisted record --------------------------------------------------
\* Optional values are sequences of length 0 or 1.
None == <<>>
Some(x) == <<x>>

requestRate(m) ==
    IF m.uptime > 0 THEN Ratio(m.requestCount * 1000, m.uptime) ELSE Zero
errorRate(m) ==
    IF m.requestCount > 0 THEN Ratio(m.errorCount * 100, m.requestCount)
    ELSE Zero
successRateDefaultZero(m) ==
    IF m.requestCount > 0 THEN Ratio(m.successCount * 100, m.requestCount)
    ELSE Zero
successRate(m) ==
    IF m.requestCount > 0 THEN Ratio(m.successCount * 100, m.requestCount)
    ELSE Ratio(100, 1)

\* ---- Number arithmetic -----------------------------------------------------
\* The quotients and products of lines 270-274 are IEEE 754 doubles: 53
\* significant bits, round to nearest, ties to even.  A Number is
\* [bits, exp]: the binary digits of an integer, most significant first,
\* with no leading and no trailing zero, times 2^exp; zero is [<<>>, 0].
\* (Subnormals, infinities and overflow are out of reach of the counters.)
Mantissa == 53

Zeros(n) == [i \in 1..n |-> 0]
AllZero(b) == \A i \in 1..Len(b) : b[i] = 0
FirstOne(b) == CHOOSE i \in 1..Len(b) : b[i] = 1 /\ \A j \in 1..(i - 1) : b[j] = 0
LastOne(b) == CHOOSE i \in 1..Len(b) : b[i] = 1 /\ \A j \in (i + 1)..Len(b) : b[j] = 0

RECURSIVE ToBits(_)
ToBits(n) == IF n = 0 THEN <<>> ELSE ToBits(n \div 2) \o <<n % 2>>

StripLeading(b) == IF AllZero(b) THEN <<>> ELSE SubSeq(b, FirstOne(b), Len(b))

Canon(b, e) ==
    IF AllZero(b) THEN [bits |-> <<>>, exp |-> 0]
    ELSE [bits |-> SubSeq(b, FirstOne(b), LastOne(b)),
          exp |-> e + Len(b) - LastOne(b)]

\* The digit strings are long, so the digit-by-digit algorithms below work
\* on the low half first and hand its carry (or remainder) to the high half.
\* Bind(v, F) is F(v) with v evaluated first, as a loop has the carry of one
\* digit in hand before it starts the next.
Bind(v, F(_)) == CHOOSE r \in {F(x) : x \in {v}} : TRUE

\* a + b + carry for digit strings of one length: the digits of the sum at
\* those places, and the carry out of them
RECURSIVE AddCarry(_, _, _)
AddCarry(a, b, carry) ==
    IF Len(a) = 0 THEN [carry |-> carry, bits |-> <<>>]
    ELSE IF Len(a) = 1
    THEN [carry |-> (a[1] + b[1] + carry) \div 2,
          bits |-> <<(a[1] + b[1] + carry) % 2>>]
    ELSE LET h == Len(a) \div 2
             lo == AddCarry(SubSeq(a, h + 1, Len(a)), SubSeq(b, h + 1, Len(b)),
                            carry)
             hi == Bind(lo.carry,
                        LAMBDA c : AddCarry(SubSeq(a, 1, h), SubSeq(b, 1, h), c))
         IN  [carry |-> hi.carry, bits |-> hi.bits \o lo.bits]

\* a * k + carry for a small integer k
RECURSIVE MulCarry(_, _, _)
MulCarry(a, k, carry) ==
    IF Len(a) = 0 THEN [carry |-> carry, bits |-> <<>>]
    ELSE IF Len(a) = 1
    THEN [carry |-> (a[1] * k + carry) \div 2,
          bits |-> <<(a[1] * k + carry) % 2>>]
    ELSE LET h == Len(a) \div 2
             lo == MulCarry(SubSeq(a, h + 1, Len(a)), k, carry)
             hi == Bind(lo.carry, LAMBDA c : MulCarry(SubSeq(a, 1, h), k, c))
         IN  [carry |-> hi.carry, bits |-> hi.bits \o lo.bits]

\* Long division: n binary digits of r / d after the point (r < d), and the
\* remainder left after them
RECURSIVE FracDigits(_, _, _)
FracDigits(r, d, n) ==
    IF n = 0 THEN [rem |-> r, bits |-> <<>>]
    ELSE IF n = 1
    THEN [rem |-> (2 * r) % d, bits |-> <<(2 * r) \div d>>]
    ELSE LET h == n \div 2
             first == FracDigits(r, d, h)
             second == Bind(first.rem, LAMBDA x : FracDigits(x, d, n - h))
         IN  [rem |-> second.rem, bits |-> first.bits \o second.bits]

\* The double nearest to b * 2^e (plus something below the last digit when
\* sticky): b has no leading zero.
RoundToDouble(b, e, sticky) ==
    IF Len(b) <= Mantissa THEN Canon(b, e)
    ELSE LET keep == SubSeq(b, 1, Mantissa)
             guard == b[Mantissa + 1]
             rest == sticky \/ \E i \in (Mantissa + 2)..Len(b) : b[i] = 1
             up == guard = 1 /\ (rest \/ keep[Mantissa] = 1)
             inc == AddCarry(keep, Zeros(Mantissa), 1)
             kept == IF up THEN <<inc.carry>> \o inc.bits ELSE keep
         IN  Canon(kept, e + Len(b) - Mantissa)

\* a / d for integers a >= 0 and d > 0: enough digits after the point to
\* have the 53 significant ones, the guard digit and one more.
NumDiv(a, d) ==
    LET n == Mantissa + 2 + Len(ToBits(d))
        q == FracDigits(a % d, d, n)
    IN  RoundToDouble(StripLeading(ToBits(a \div d) \o q.bits), 0 - n,
                      q.rem /= 0)

\* x * k for a Number x and a small integer k
NumMul(x, k) ==
    LET p == MulCarry(x.bits, k, 0)
    IN  RoundToDouble(StripLeading(ToBits(p.carry) \o p.bits), x.exp, FALSE)

\* x + y
NumAdd(x, y) ==
    LET e == IF x.exp <= y.exp THEN x.exp ELSE y.exp
        xa == x.bits \o Zeros(x.exp - e)
        ya == y.bits \o Zeros(y.exp - e)
        w == IF Len(xa) >= Len(ya) THEN Len(xa) ELSE Len(ya)
        t == AddCarry(Zeros(w - Len(xa)) \o xa, Zeros(w - Len(ya)) \o ya, 0)
    IN  RoundToDouble(StripLeading(<<t.carry>> \o t.bits), e, FALSE)

NumOf(k) == Canon(ToBits(k), 0)

\* The Numbers the file holds for errorRate and successRate (lines 271-274).
errorRateNumber(m) ==
    IF m.requestCount > 0 THEN NumMul(NumDiv(m.errorCount, m.requestCount), 100)
    ELSE NumOf(0)
successRateNumber(m) ==
    IF m.requestCount > 0 THEN NumMul(NumDiv(m.successCount, m.requestCount), 100)
    ELSE NumOf(100)

\* const output = { ...this.metrics, requestRate, errorRate, successRate,
\*                  lastUpdated, integration }
Output(m, t) ==
    [metrics |-> m,
     requestRate |-> requestRate(m), errorRate |-> errorRate(m),
     successRate |-> successRate(m), lastUpdated |-> t]

\* ---- initial state: the state the constructor leaves ------------------------
InitialMetrics ==
    [responseTime |-> Zero, requestCount |-> 0, errorCount |-> 0,
     successCount |-> 0, activeConnections |-> 0, timestamp |-> 0,
     uptime |-> 0, pages |-> [home |-> 0, api |-> 0, other |-> 0],
     routes |-> [k \in {} |-> 0]]

IdleCall == [pc |-> "idle", route |-> "-", startTime |-> 0,
             outcome |-> None, settled |-> None]

\* The constructor ends with initialize(): the interval is armed and the
\* first writeMetricsFile() has run (and succeeded or failed).
InitFor(calls) ==
    /\ metrics = InitialMetrics
    /\ requestTimes = <<>>
    /\ startTime = 0
    /\ now = 0
    /\ timerArmed = TRUE
    /\ nextDue = UpdateInterval
    /\ call = [c \in calls |-> IdleCall]
    /\ \E ok \in BOOLEAN :
         /\ file = IF ok THEN Some(Output(InitialMetrics, 0)) ELSE None
         /\ lastWrite = IF ok THEN "ok" ELSE "failed"
    /\ returned = None
    /\ pushed = <<>>
    /\ delivered = {}
    /\ finalWrites = 0
    /\ nEvents = 0
    /\ nViews = 0
    /\ lastInput = None
    /\ uncaught = "none"
    /\ probeFailures = 0

Init == InitFor(Calls)
InitAccounting == InitFor(AccountingCalls)

InFlight == {c \in DOMAIN call : call[c].pc = "awaiting"}
Exited == {c \in DOMAIN call : call[c].pc = "exited"}

\* ---- actions --------------------------------------------------------------
\* A process ended by an uncaught exception runs no code; its clock is no
\* longer read.
Alive == uncaught /= "fatal"

\* The clock advances.
Tick ==
    /\ Alive
    /\ now < MaxTicks * UpdateInterval
    /\ now' = now + UpdateInterval
    /\ UNCHANGED <<metrics, requestTimes, startTime, timerArmed, nextDue, call,
                   file, returned, pushed, delivered, lastWrite, finalWrites, nEvents, nViews,
                   lastInput, uncaught, probeFailures>>

\* A wrapped request starts: lines 92-99, up to the await.
\* The calls are interchangeable, so they are started in index order.
Enter(c) ==
    /\ Alive
    /\ call[c].pc = "idle"
    /\ \A b \in DOMAIN call : b < c => call[b].pc /= "idle"
    /\ \E url \in Urls :
         call' = [call EXCEPT ![c] = [@ EXCEPT !.pc = "awaiting",
                                         !.route = RouteOf(url),
                                         !.startTime = now]]
    /\ metrics' = [metrics EXCEPT !.activeConnections = @ + 1]
    /\ UNCHANGED <<requestTimes, startTime, timerArmed, nextDue, now, file,
                   returned, pushed, delivered, lastWrite, finalWrites, nEvents, nViews,
                   lastInput, uncaught, probeFailures>>

\* The handler of a wrapped request finished: lines 99-113, after the await.
\* The call's locals (route, startTime) are dead once it has exited.
Exit(c) ==
    /\ Alive
    /\ call[c].pc = "awaiting"
    /\ \E outcome \in HandlerOutcomes :
         LET responseTime == now - call[c].startTime
             statusCode == IF outcome.kind = "throw" THEN 500 ELSE 200
             u == updateMetrics(metrics, requestTimes, responseTime,
                                statusCode, call[c].route, "api")
         IN  /\ requestTimes' = u.requestTimes
             /\ pushed' = Append(pushed, responseTime)
             /\ metrics' = Finally(u.metrics, outcome)
             /\ call' = [call EXCEPT ![c] = [IdleCall EXCEPT
                                             !.pc = "exited",
                                             !.outcome = Some(outcome),
                                             !.settled = Some(Settle(outcome))]]
    /\ UNCHANGED <<startTime, timerArmed, nextDue, now, file, returned, delivered,
                   lastWrite, finalWrites, nEvents, nViews,
                   lastInput, uncaught, probeFailures>>

\* trackPageView(pageName): lines 128-140
TrackPageViewAsRequest ==
    /\ Alive
    /\ nViews < MaxPageViews
    /\ \E pageName \in PageNames :
         /\ metrics' = [metrics EXCEPT
               !.requestCount = @ + 1,
               !.successCount = @ + 1,
               !.pages[classifyPage(Text(pageName))] = @ + 1,
               !.routes = Bump(@, pageName)]
         /\ lastInput' = Some([op |-> "trackPageView", name |-> pageName])
    /\ nViews' = nViews + 1
    /\ UNCHANGED <<requestTimes, startTime, timerArmed, nextDue, now, call,
                   file, returned, pushed, delivered, lastWrite, finalWrites, nEvents,
                   uncaught, probeFailures>>
TrackPageView ==
    /\ Alive
    /\ nViews < MaxPageViews
    /\ \E pageName \in PageNames :
         /\ metrics' = [metrics EXCEPT
               !.pages[classifyPage(Text(pageName))] = @ + 1,
               !.routes = Bump(@, pageName)]
         /\ lastInput' = Some([op |-> "trackPageView", name |-> pageName])
    /\ nViews' = nViews + 1
    /\ UNCHANGED <<requestTimes, startTime, timerArmed, nextDue, now, call,
                   file, returned, pushed, delivered, lastWrite, finalWrites, nEvents,
                   uncaught, probeFailures>>

\* classifyPage(pageName) called on its own: lines 206-210.  It has no access
\* to `this`.
ClassifyPage ==
    /\ Alive
    /\ lastInput = None
    /\ \E pageName \in ClassifyInputs :
         lastInput' = Some([op |-> "classifyPage", text |-> pageName,
                            result |-> classifyPage(pageName)])
    /\ UNCHANGED <<metrics, requestTimes, startTime, timerArmed, nextDue, now,
                   call, file, returned, pushed, delivered, lastWrite,
                   finalWrites, nEvents, nViews, uncaught, probeFailures>>

\* `if (duration)`: an omitted duration and a duration of 0 are both falsy
Truthy(duration) == duration /= Undefined /\ duration[1] /= 0

\* trackCustomEvent(eventName, duration, metadata): lines 145-161
TrackCustomEvent ==
    /\ Alive
    /\ nEvents < MaxEvents
    /\ \E eventName \in EventNames, duration \in EventDurations :
         /\ requestTimes' = IF Truthy(duration)
                              THEN Push(requestTimes, duration[1])
                              ELSE requestTimes
         /\ pushed' = IF Truthy(duration)
                        THEN Append(pushed, duration[1]) ELSE pushed
         /\ metrics' = [metrics EXCEPT !.routes = Bump(@, eventName)]
         /\ lastInput' = Some([op |-> "trackCustomEvent", name |-> eventName,
                              duration |-> duration])
    /\ nEvents' = nEvents + 1
    /\ UNCHANGED <<startTime, timerArmed, nextDue, now, call, file, returned,
                   delivered, lastWrite, finalWrites, nViews,
                   uncaught, probeFailures>>

\* collectMetrics(): lines 215-238.  memoryUsage, cpuUsage, projectName and
\* buildInfo are written here and read by no operation; they are left out
\* of the state.
collectMetrics(m, start, t) ==
    [m EXCEPT !.timestamp = t, !.uptime = t - start]

\* writeMetricsFile(): lines 266-288.  fs.writeFileSync either replaces the
\* file or throws; the throw is caught and logged.
writeMetricsFileKeep(m, t, ok, f) ==
    IF ok /\ f = None THEN Some(Output(m, t)) ELSE f
writeMetricsFile(m, t, ok, f) == IF ok THEN Some(Output(m, t)) ELSE f

\* Whether writeMetricsFile lets the failure of fs.writeFileSync out: the
\* try / catch of lines 267-287 absorbs it.
writeThrowsNoCatch(ok) == ~ok
writeThrows(ok) == FALSE

\* An exception that leaves a timer callback or a signal listener is an
\* uncaught exception of the process: the process ends, unless the host
\* application listens for 'uncaughtException'.
Fates == {"survived", "fatal"}

\* The interval fires: lines 65-71.  A JavaScript timer never fires early.
TimerFire ==
    /\ Alive
    /\ timerArmed
    /\ now >= nextDue
    /\ nextDue' = now + UpdateInterval
    /\ metrics' = collectMetrics(metrics, startTime, now)
    /\ \E ok \in BOOLEAN :
         /\ file' = writeMetricsFile(metrics', now, ok, file)
         /\ lastWrite' = IF ok THEN "ok" ELSE "failed"
         /\ uncaught' \in IF writeThrows(ok) THEN Fates ELSE {uncaught}
    /\ UNCHANGED <<requestTimes, startTime, timerArmed, now, call, returned,
                   pushed, delivered, finalWrites, nEvents, nViews,
                   lastInput, probeFailures>>

\* The interval fires and process.memoryUsage() or process.cpuUsage() throws
\* (lines 217, 221).  collectMetrics has no handler around them (only
\* updateBuildInfo has one, lines 244-260) and neither has the callback, so
\* the exception leaves the callback before timestamp and uptime are set and
\* before writeMetricsFile is called.  If the process survives, the interval
\* stays armed.
TimerFireProbeThrows ==
    /\ Alive
    /\ timerArmed
    /\ now >= nextDue
    /\ nextDue' = now + UpdateInterval
    /\ probeFailures' = probeFailures + 1
    /\ uncaught' \in Fates
    /\ lastWrite' = "none"
    /\ UNCHANGED <<metrics, requestTimes, startTime, timerArmed, now, call,
                   file, returned, pushed, delivered, finalWrites, nEvents,
                   nViews, lastInput>>

\* getMetrics(): lines 309-311.  { ...this.metrics } copies the top-level
\* fields: the numbers by value, pages and routes as references to the live
\* objects.  The copy keeps the numbers; takenAt and buffer are history (the
\* time of the call and requestTimes at that time).
ShallowCopy(m) ==
    [responseTime |-> m.responseTime, requestCount |-> m.requestCount,
     errorCount |-> m.errorCount, successCount |-> m.successCount,
     activeConnections |-> m.activeConnections, timestamp |-> m.timestamp,
     uptime |-> m.uptime]

\* What the holder of the returned object reads from it: its own copies of
\* the numbers, and the live pages and routes objects through the copied
\* references.
ReturnedView ==
    [numbers |-> returned[1].copy,
     pages |-> metrics.pages,
     routes |-> metrics.routes]

GetMetrics ==
    /\ Alive
    /\ returned = None
    /\ returned' = Some([copy |-> ShallowCopy(metrics), takenAt |-> now,
                         buffer |-> requestTimes])
    /\ UNCHANGED <<metrics, requestTimes, startTime, timerArmed, nextDue, now,
                   call, file, pushed, delivered, lastWrite, finalWrites, nEvents, nViews,
                   lastInput, uncaught, probeFailures>>

\* cleanup(): lines 316-326, run by the SIGINT and SIGTERM listeners that
\* initialize() installs (lines 74-75).  A process with a listener for a
\* signal is not terminated by it, so further signals can follow.
\* Each of the two signals is delivered at most once in a behaviour.
cleanup(sig) ==
    /\ Alive
    /\ sig \notin delivered
    /\ delivered' = delivered \cup {sig}
    /\ timerArmed' = FALSE
    /\ \E ok \in BOOLEAN :
         /\ file' = writeMetricsFile(metrics, now, ok, file)
         /\ lastWrite' = IF ok THEN "ok" ELSE "failed"
         /\ uncaught' \in IF writeThrows(ok) THEN Fates ELSE {uncaught}
    /\ finalWrites' = finalWrites + 1
    /\ UNCHANGED <<metrics, requestTimes, startTime, nextDue, now, call,
                   returned, pushed, nEvents, nViews,
                   lastInput, probeFailures>>

\* process.on('SIGINT', () => this.cleanup())
Sigint == cleanup("SIGINT")
\* process.on('SIGTERM', () => this.cleanup())
Sigterm == cleanup("SIGTERM")

Next ==
    \/ Tick
    \/ ClassifyPage
    \/ \E c \in Calls : Enter(c)
    \/ \E c \in Calls : Exit(c)
    \/ TrackPageView
    \/ TrackCustomEvent
    \/ TimerFire
    \/ TimerFireProbeThrows
    \/ GetMetrics
    \/ Sigint
    \/ Sigterm

Spec == Init /\ [][Next]_vars

\* The request path: wrapped calls and custom events, with the timer, the
\* signals and the readers left out (none of them writes a counter or the
\* buffer).
NextRecorder ==
    \/ Tick
    \/ \E c \in Calls : Enter(c)
    \/ \E c \in Calls : Exit(c)
    \/ TrackCustomEvent

SpecRecorder == Init /\ [][NextRecorder]_vars

\* The scheduler: wrapped calls, the timer and the signals.
NextScheduler ==
    \/ Tick
    \/ \E c \in Calls : Enter(c)
    \/ \E c \in Calls : Exit(c)
    \/ TimerFire
    \/ Sigint
    \/ Sigterm

SpecScheduler == Init /\ [][NextScheduler]_vars

\* Every producer of a snapshot (the timer, cleanup, getMetrics) next to
\* every writer of the buffer.
NextSnapshot ==
    \/ Tick
    \/ \E c \in Calls : Enter(c)
    \/ \E c \in Calls : Exit(c)
    \/ TrackCustomEvent
    \/ TimerFire
    \/ GetMetrics
    \/ Sigint

SpecSnapshot == Init /\ [][NextSnapshot]_vars

\* The writers of the file: the timer and one shutdown signal, next to the
\* wrapped calls.
NextWrites ==
    \/ Tick
    \/ \E c \in Calls : Enter(c)
    \/ \E c \in Calls : Exit(c)
    \/ TimerFire
    \/ Sigint

SpecWrites == Init /\ [][NextWrites]_vars

\* The scheduler with a resource probe that can fail.
NextProbe ==
    \/ Tick
    \/ \E c \in Calls : Enter(c)
    \/ \E c \in Calls : Exit(c)
    \/ TimerFire
    \/ TimerFireProbeThrows
    \/ Sigint

SpecProbe == Init /\ [][NextProbe]_vars

\* The classifier on its own.
SpecClassify == Init /\ [][ClassifyPage]_vars

\* Every writer of a tally: wrapped calls, page views and custom events.
NextTallies ==
    \/ \E c \in Calls : Enter(c)
    \/ \E c \in Calls : Exit(c)
    \/ TrackPageView
    \/ TrackCustomEvent

SpecTallies == Init /\ [][NextTallies]_vars

\* The writer of the counters next to the write of the file at shutdown,
\* with one request more than elsewhere.
NextAccounting ==
    \/ \E c \in AccountingCalls : Enter(c)
    \/ \E c \in AccountingCalls : Exit(c)
    \/ Sigint

SpecAccounting == InitAccounting /\ [][NextAccounting]_vars

\* The synchronous query next to every operation that writes a field the
\* returned object can show.
NextQuery ==
    \/ Tick
    \/ \E c \in Calls : Enter(c)
    \/ \E c \in Calls : Exit(c)
    \/ TrackPageView
    \/ TrackCustomEvent
    \/ TimerFire
    \/ GetMetrics

SpecQuery == Init /\ [][NextQuery]_vars

\* The whole program (Spec) is beyond exhaustive search at these bounds; the
\* properties below are checked under the specifications above.

\* ---- steps, as seen from the history variables ---------------------------
TimerStep == nextDue' /= nextDue
CleanupStep == delivered' /= delivered
\* a snapshot reached the file in this step
WriteStep == (TimerStep \/ CleanupStep) /\ lastWrite' = "ok"
\* getMetrics returned in this step
GetStep == returned = None /\ returned' /= None

Returned(c) == call[c].pc = "exited" /\ call[c].outcome[1].kind = "return"
Threw(c) == call[c].pc = "exited" /\ call[c].outcome[1].kind = "throw"

\* the last n elements of s (all of s when it is shorter)
LastN(s, n) == SubSeq(s, Max(1, Len(s) - n + 1), Len(s))
MeanOrZero(rt) == IF rt = <<>> THEN Zero ELSE Average(rt)

\* C1: whenever no wrapped call is in flight, requestCount is the number of
\* calls that have exited, successCount the number that returned, errorCount
\* the number that threw, and activeConnections is 0.
C1_AllCounted ==
    InFlight = {} =>
        /\ metrics.requestCount = Cardinality(Exited)
        /\ metrics.successCount = Cardinality({c \in Calls : Returned(c)})
        /\ metrics.errorCount = Cardinality({c \in Calls : Threw(c)})
        /\ metrics.activeConnections = 0

\* All calls have exited, with both outcomes present; every sample spans the
\* whole clock range, so the calls were in flight together.
C1_Witness ==
    /\ Exited = Calls
    /\ \E c \in Calls : Returned(c)
    /\ \E c \in Calls : Threw(c)
    /\ nEvents = 0
    /\ \A i \in 1..Len(pushed) : pushed[i] = MaxTicks * UpdateInterval

\* C2: requestTimes never holds more than Capacity samples and is always
\* the last Capacity samples pushed, in the order they were pushed.
C2_BufferIsTail ==
    /\ Len(requestTimes) <= Capacity
    /\ requestTimes = LastN(pushed, Capacity)

\* More samples than the capacity were pushed, by wrapped calls and by a
\* custom event, and the evicted one differs from the ones kept.
C2_Witness ==
    /\ Len(pushed) > Capacity
    /\ \E i \in 1..Len(pushed) : pushed[i] = 40
    /\ Exited /= {}
    /\ pushed[1] /= pushed[Len(pushed)]

\* C4: when the handler of a wrapped call throws, the step in which the
\* wrapper exits rejects with that same error, and in that same step
\* errorCount and requestCount have grown by one, one sample was pushed
\* and activeConnections has gone down by one.
C4_Resignal ==
    [][\A c \in Calls :
         (call[c].pc = "awaiting" /\ call'[c].pc = "exited"
            /\ call'[c].outcome[1].kind = "throw") =>
              /\ call'[c].settled[1] =
                    [kind |-> "rejected", value |-> call'[c].outcome[1].value]
              /\ metrics'.errorCount = metrics.errorCount + 1
              /\ metrics'.requestCount = metrics.requestCount + 1
              /\ metrics'.successCount = metrics.successCount
              /\ Len(pushed') = Len(pushed) + 1
              /\ metrics'.activeConnections = metrics.activeConnections - 1]_vars

\* A call has been rejected with its handler's error while another call is
\* still in flight.
C4_Witness ==
    \E c \in Calls :
        /\ Threw(c)
        /\ call[c].settled[1].kind = "rejected"
        /\ call[c].settled[1].value = "E2"
        /\ InFlight /= {}

\* C5: activeConnections is the number of wrapped calls in flight.
C5_Gauge == metrics.activeConnections = Cardinality(InFlight)

\* One call has exited by throwing while the others are still in flight.
C5_Witness ==
    /\ \E c \in Calls : Threw(c)
    /\ InFlight /= {}
    /\ InFlight \cup Exited = Calls

\* C3: every snapshot, written to the file or returned by getMetrics, has a
\* responseTime equal to the mean of requestTimes at that moment (0 when the
\* buffer is empty).
C3_SnapshotMean ==
    [][/\ WriteStep =>
            RatEq(file'[1].metrics.responseTime, MeanOrZero(requestTimes'))
       /\ GetStep =>
            RatEq(returned'[1].copy.responseTime,
                  MeanOrZero(returned'[1].buffer))]_vars

\* C6: once a signal has been delivered the timer is disarmed, no periodic
\* cycle runs and no snapshot reaches the file any more.
C6_StoppedIsTerminal ==
    [][delivered /= {} => ~timerArmed' /\ ~TimerStep /\ ~WriteStep]_vars

\* C7: in every state in which a signal has been delivered, the shutdown
\* path has invoked writeMetricsFile exactly once.
C7_OneFinalWrite == delivered /= {} => finalWrites = 1

\* C8: a snapshot written by cleanup carries the live requestCount,
\* successCount, errorCount, pages and routes, and so counts every wrapped
\* call that has exited.
C8_FinalSnapshotLive ==
    [][(CleanupStep /\ lastWrite' = "ok") =>
          LET f == file'[1].metrics
          IN  /\ f.requestCount = metrics.requestCount
              /\ f.successCount = metrics.successCount
              /\ f.errorCount = metrics.errorCount
              /\ f.pages = metrics.pages
              /\ f.routes = metrics.routes
              /\ f.requestCount = Cardinality(Exited)
              /\ f.successCount = Cardinality({c \in Calls : Returned(c)})
              /\ f.errorCount = Cardinality({c \in Calls : Threw(c)})]_vars

\* cleanup wrote the file after calls had exited and before any periodic
\* cycle had run (uptime is still 0, the timer is disarmed).
C8_Witness ==
    /\ delivered /= {}
    /\ lastWrite = "ok"
    /\ file /= None
    /\ file[1].metrics.uptime = 0
    /\ file[1].metrics.requestCount = MaxCalls
    /\ file[1].metrics.errorCount >= 1
    /\ now > 0

\* C9: every snapshot has uptime = (time it is taken) - startTime and a
\* requestRate computed from that uptime and the current requestCount.
C9_FreshUptime ==
    [][/\ WriteStep =>
            /\ file'[1].metrics.uptime = now' - startTime
            /\ RatEq(file'[1].requestRate,
                      IF now' - startTime > 0
                      THEN Ratio(metrics'.requestCount * 1000, now' - startTime)
                      ELSE Zero)
       /\ GetStep => returned'[1].copy.uptime = now' - startTime]_vars

\* C10: the file's errorRate and successRate are errorCount / requestCount
\* and successCount / requestCount times 100, or 0 and 100 when requestCount
\* is 0, and the counters in the file are the ones current at the write.
C10_Rates ==
    /\ [](file /= None =>
            LET f == file[1]
                m == f.metrics
            IN  IF m.requestCount > 0
                THEN /\ RatEq(f.errorRate,
                              Ratio(m.errorCount * 100, m.requestCount))
                     /\ RatEq(f.successRate,
                              Ratio(m.successCount * 100, m.requestCount))
                ELSE /\ RatEq(f.errorRate, Zero)
                     /\ RatEq(f.successRate, Ratio(100, 1)))
    /\ [][WriteStep =>
            /\ file'[1].metrics.requestCount = metrics'.requestCount
            /\ file'[1].metrics.errorCount = metrics'.errorCount
            /\ file'[1].metrics.successCount = metrics'.successCount]_vars

\* The file holds a snapshot with one success and one failure, written by
\* the timer.
C10_Witness ==
    /\ file /= None
    /\ delivered = {}
    /\ file[1].metrics.requestCount = 2
    /\ file[1].metrics.errorCount = 1
    /\ file[1].errorRate = Ratio(100, 2)

\* ---- the classifier ------------------------------------------------------
Classified == lastInput /= None /\ lastInput[1].op = "classifyPage"
HasApiPrefix(x) == Len(x) >= 5 /\ SubSeq(x, 1, 5) = <<"/", "a", "p", "i", "/">>

\* C11 (as amended): classifyPage returns home exactly for "/" and for
\* "/index", api exactly for the names that begin with "/api/", other for
\* every other name, and leaves the monitor as it was constructed.
C11_Classify ==
    Classified =>
        LET x == lastInput[1].text
            r == lastInput[1].result
        IN  /\ r = "home" <=> x \in {<<"/">>, <<"/", "i", "n", "d", "e", "x">>}
            /\ r = "api" <=> HasApiPrefix(x)
            /\ r = "other" <=>
                  ~HasApiPrefix(x)
                  /\ x \notin {<<"/">>, <<"/", "i", "n", "d", "e", "x">>}
            /\ metrics = InitialMetrics
            /\ requestTimes = <<>>

\* classifyPage has been applied to "/index".
C11_Witness ==
    /\ Classified
    /\ lastInput[1].text = <<"/", "i", "n", "d", "e", "x">>
    /\ lastInput[1].result = "home"

\* C11 as stated: home exactly for the root path "/", api exactly for the
\* names that begin with "/api/", other for every other name.
C11_AsStated ==
    Classified =>
        LET x == lastInput[1].text
            r == lastInput[1].result
        IN  /\ r = "home" <=> x = <<"/">>
            /\ r = "api" <=> HasApiPrefix(x)
            /\ r = "other" <=> (~HasApiPrefix(x) /\ x /= <<"/">>)

\* ---- page-type counters ----------------------------------------------------
\* call c exits in this step
ExitStep(c) == call[c].pc = "awaiting" /\ call'[c].pc = "exited"

\* C12 (as amended): the exit of a wrapped call adds one to pages.api and
\* leaves pages.home and pages.other alone, whatever the call's route.
C12_ApiCounter ==
    [][\A c \in Calls :
         ExitStep(c) =>
            metrics'.pages = [metrics.pages EXCEPT !.api = @ + 1]]_vars

\* A wrapped call on route "/" has exited: pages.api counts it, pages.home
\* does not.
C12_Witness ==
    /\ Exited /= {}
    /\ "/" \in DOMAIN metrics.routes
    /\ metrics.pages.api = Cardinality(Exited)
    /\ metrics.pages.home = 0

\* C12 as stated: the exit of a wrapped call adds one to the counter that
\* classifyPage gives for the call's route, and to no other.
C12_AsStated ==
    [][\A c \in Calls :
         ExitStep(c) =>
            metrics'.pages =
               [metrics.pages EXCEPT
                  ![classifyPage(Text(call[c].route))] = @ + 1]]_vars

\* ---- failures in a cycle ---------------------------------------------------
\* the resource probe threw in this step
ProbeFailStep == probeFailures' /= probeFailures

\* C13: when the resource probe throws in a timer cycle, no exception
\* leaves the callback, the cycle still reaches writeMetricsFile and the
\* timer stays armed.
C13_ProbeSwallowed ==
    [][ProbeFailStep =>
          /\ uncaught' = "none"
          /\ lastWrite' \in {"ok", "failed"}
          /\ timerArmed']_vars

\* ---- C14 ----------------------------------------------------------------
\* What the request path keeps: the counters, the gauge, the mean and the
\* two tallies.
Accounting(m) ==
    <<m.requestCount, m.errorCount, m.successCount, m.activeConnections,
      m.responseTime, m.pages, m.routes>>
WriteFailedStep == (TimerStep \/ CleanupStep) /\ lastWrite' = "failed"

\* C14: a write of the snapshot that fails reaches no caller (no exception
\* leaves the timer callback or the signal listener), leaves the file, the
\* counters, the sample buffer and the wrapped calls as they were, and, in a
\* timer cycle, leaves the interval armed with the next cycle due one
\* update interval later.
C14_WriteFailureContained ==
    [][WriteFailedStep =>
          /\ uncaught' = uncaught
          /\ file' = file
          /\ requestTimes' = requestTimes
          /\ Accounting(metrics') = Accounting(metrics)
          /\ call' = call
          /\ TimerStep => /\ timerArmed'
                          /\ timerArmed' = timerArmed
                          /\ nextDue' = now + UpdateInterval]_vars

\* A timer cycle whose write failed, after a request was recorded and a
\* file was written: the interval is still armed and the next cycle is due.
C14_Witness ==
    /\ lastWrite = "failed"
    /\ uncaught = "none"
    /\ delivered = {}
    /\ timerArmed
    /\ nextDue = now + UpdateInterval
    /\ metrics.requestCount > 0
    /\ file /= None

\* ---- C15 ----------------------------------------------------------------
\* C15: every field of an object returned by getMetrics, the nested pages
\* and routes tallies included, reads the same after any later operation
\* as it did before it.
C15_SnapshotFrozen ==
    [][returned /= None /\ returned' /= None => ReturnedView' = ReturnedView]_vars

\* ---- C16 ----------------------------------------------------------------
EventStep == nEvents' /= nEvents
RouteCount(m, name) == IF name \in DOMAIN m.routes THEN m.routes[name] ELSE 0

\* C16: trackCustomEvent(name, duration) pushes exactly one sample equal to
\* duration when a duration is supplied, 0 included, and none when it is
\* absent; either way the tally of name goes up by exactly 1.
C16_EventSample ==
    [][EventStep =>
          LET in == lastInput'[1]
          IN  /\ pushed' = IF in.duration /= Undefined
                              THEN Append(pushed, in.duration[1])
                              ELSE pushed
              /\ RouteCount(metrics', in.name) = RouteCount(metrics, in.name) + 1]_vars

\* ---- C18 ----------------------------------------------------------------
\* The Number a reader of the file gets by adding its two rates.
RatesSum(m) == NumAdd(errorRateNumber(m), successRateNumber(m))
\* 100, and the doubles next below and next above it (100 -+ 2^-46).
Near100 ==
    {NumOf(100),
     [bits |-> <<1, 1, 0, 0, 0, 1, 1>> \o [i \in 1..(Mantissa - 7) |-> 1],
      exp |-> 7 - Mantissa],
     [bits |-> <<1, 1, 0, 0, 1>> \o Zeros(Mantissa - 6) \o <<1>>,
      exp |-> 7 - Mantissa]}
Balanced(m) == m.requestCount = m.successCount + m.errorCount

C17_Monotonic ==
    [][/\ metrics'.requestCount >= metrics.requestCount
       /\ metrics'.errorCount >= metrics.errorCount
       /\ metrics'.successCount >= metrics.successCount
       /\ \A p \in DOMAIN metrics.pages : metrics'.pages[p] >= metrics.pages[p]
       /\ DOMAIN metrics.routes \subseteq DOMAIN metrics'.routes
       /\ \A k \in DOMAIN metrics.routes : metrics'.routes[k] >= metrics.routes[k]
       /\ \A k \in DOMAIN metrics'.routes \ DOMAIN metrics.routes :
             metrics'.routes[k] = 1]_vars

\* ---- C19 ----------------------------------------------------------------
ViewStep == nViews' /= nViews
\* The fields of the request accounting
Requests(m) ==
    <<m.requestCount, m.errorCount, m.successCount, m.activeConnections>>
\* r2 is r1 except, at most, at key k
SameExceptAt(r1, r2, k) ==
    /\ DOMAIN r2 \ {k} = DOMAIN r1 \ {k}
    /\ \A j \in DOMAIN r1 \ {k} : r2[j] = r1[j]

\* C19: trackCustomEvent changes only the sample buffer and the tally of its
\* name; trackPageView changes only the page counter of its class and the
\* tally of its name, and pushes no sample; neither changes requestCount,
\* errorCount, successCount or activeConnections.
C19_Frame ==
    [][/\ EventStep =>
            /\ Requests(metrics') = Requests(metrics)
            /\ metrics'.pages = metrics.pages
            /\ metrics'.responseTime = metrics.responseTime
            /\ SameExceptAt(metrics.routes, metrics'.routes, lastInput'[1].name)
            /\ call' = call /\ file' = file
       /\ ViewStep =>
            /\ Requests(metrics') = Requests(metrics)
            /\ requestTimes' = requestTimes
            /\ pushed' = pushed
            /\ metrics'.responseTime = metrics.responseTime
            /\ SameExceptAt(metrics.pages, metrics'.pages,
                            classifyPage(Text(lastInput'[1].name)))
            /\ SameExceptAt(metrics.routes, metrics'.routes, lastInput'[1].name)
            /\ call' = call /\ file' = file]_vars

\* A page view and a custom event with a duration have been recorded next
\* to a request that is still in flight and one that has been counted.
C19_Witness ==
    /\ nViews > 0
    /\ nEvents > 0
    /\ pushed /= <<>>
    /\ metrics.requestCount > 0
    /\ metrics.activeConnections > 0
    /\ metrics.requestCount < Len(pushed)
====
